---- MODULE Spec2Model ----
(***************************************************************************)
(* Card-custody tracker (Flask + SQLAlchemy): shared-password gate, card   *)
(* registry, delivery / return events and the status derived from them.    *)
(*                                                                         *)
(* Text values (form fields, stored strings, rendered status texts) are    *)
(* sequences of tokens; the token " " is white space.  A datetime is an    *)
(* integer count of ticks, Res ticks to a second, so that the seconds-only *)
(* text format loses the sub-second part as strftime does.                 *)
(***************************************************************************)
EXTENDS Integers, Sequences, FiniteSets, TLC

VARIABLES passwords, cards, deliveries, logged_in, clock, resp, req

vars == <<passwords, cards, deliveries, logged_in, clock, resp, req>>

(* ------------------------------ bounds --------------------------------- *)
MaxSec == 1
MaxPosts == 2
MaxRacePosts == 4
Res == 2
MaxCardId == 2
MaxDeliveryId == 2
MaxPasswordId == 4

Seconds == 0 .. MaxSec
Sessions == {"s1", "s2"}
Requests == {"r1", "r2"}

(* ---------------------------- text values ------------------------------ *)
None == 0 - 1

RECURSIVE lstrip(_)
lstrip(s) == IF s # <<>> /\ Head(s) = " " THEN lstrip(Tail(s)) ELSE s

RECURSIVE rstrip(_)
rstrip(s) ==
    IF s # <<>> /\ s[Len(s)] = " " THEN rstrip(SubSeq(s, 1, Len(s) - 1)) ELSE s

strip(s) == rstrip(lstrip(s))

Contains(text, part) ==
    \E i \in 1 .. (Len(text) - Len(part) + 1) :
        SubSeq(text, i, i + Len(part) - 1) = part

Max(S) == CHOOSE m \in S : \A n \in S : n <= m

Ids(table) == {r.id : r \in table}

\* INTEGER PRIMARY KEY of the default sqlite store: largest id in use, plus one.
NextId(table) == Max(Ids(table) \cup {0}) + 1

Row(table, id) == CHOOSE r \in table : r.id = id

Response(kind, s) == [kind |-> kind, session |-> s, rows |-> {}]

(* ---------------------------- credentials ------------------------------ *)
_sha256(s) == <<"sha256">> \o s

DEFAULT_PASSWORDS ==
    << <<"Javier_Aramark_2025">>,
       <<"Lorena_Aramark_2025">>,
       <<"Carolina_Aramark_2025">> >>

Hashes(store) == {p.hash : p \in store}

\* mutant: the typed password is trimmed before it is digested
verify_password_Trimmed(plain) ==
    \E p \in passwords : p.hash = _sha256(strip(plain))

verify_password(plain) == \E p \in passwords : p.hash = _sha256(plain)

RECURSIVE SeedFrom(_, _)
SeedFrom(i, store) ==
    IF i > Len(DEFAULT_PASSWORDS) THEN store
    ELSE LET h == _sha256(DEFAULT_PASSWORDS[i])
         IN  IF h \notin Hashes(store)
             THEN SeedFrom(i + 1, store \cup {[id |-> NextId(store), hash |-> h]})
             ELSE SeedFrom(i + 1, store)

\* mutant: the defaults are seeded only into an empty table
ensure_default_passwords_IfEmpty(store) ==
    IF store = {} THEN SeedFrom(1, store) ELSE store

ensure_default_passwords(store) == SeedFrom(1, store)

\* create_app on an existing database: the process starts again.
Restart ==
    /\ Ids(ensure_default_passwords(passwords)) \subseteq 1 .. MaxPasswordId
    /\ passwords' = ensure_default_passwords(passwords)
    /\ resp' = Response("started", "none")
    /\ UNCHANGED <<cards, deliveries, logged_in, clock, req>>

(* ------------------------------ sessions ------------------------------- *)
LoginInputs ==
    {DEFAULT_PASSWORDS[1], <<"wrong">>, <<"Turno_2026">>, <<" ", "Turno_2026">>}

login(s, password) ==
    /\ IF verify_password(password)
       THEN /\ logged_in' = logged_in \cup {s}
            /\ resp' = Response("login_ok", s)
       ELSE /\ logged_in' = logged_in
            /\ resp' = Response("login_bad", s)
    /\ UNCHANGED <<passwords, cards, deliveries, clock, req>>

logout(s) ==
    /\ logged_in' = logged_in \ {s}
    /\ resp' = Response("logged_out", s)
    /\ UNCHANGED <<passwords, cards, deliveries, clock, req>>

\* mutant: one flag for the whole application instead of one per session
login_required_AnySession(s) == logged_in # {}

\* login_required: the wrapped view runs only for a session with logged_in set.
login_required(s) == s \in logged_in

ToLogin(s) ==
    /\ resp' = Response("to_login", s)
    /\ UNCHANGED <<passwords, cards, deliveries, logged_in, clock, req>>

NewPasswordInputs ==
    {<<" ">>, <<" ", "Turno_2026">>, DEFAULT_PASSWORDS[1]}

manage_passwords_add(s, new_password) ==
    IF ~login_required(s) THEN ToLogin(s)
    ELSE LET pwd == strip(new_password)
             h == _sha256(pwd)
         IN  /\ IF pwd = <<>>
                THEN /\ passwords' = passwords
                     /\ resp' = Response("password_empty", s)
                ELSE IF h \in Hashes(passwords)
                THEN /\ passwords' = passwords
                     /\ resp' = Response("password_exists", s)
                ELSE /\ NextId(passwords) <= MaxPasswordId
                     /\ passwords' =
                            passwords \cup {[id |-> NextId(passwords), hash |-> h]}
                     /\ resp' = Response("password_added", s)
             /\ UNCHANGED <<cards, deliveries, logged_in, clock, req>>

manage_passwords_delete(s, password_id) ==
    IF ~login_required(s) THEN ToLogin(s)
    ELSE /\ IF password_id \in Ids(passwords)
            THEN /\ passwords' = passwords \ {Row(passwords, password_id)}
                 /\ resp' = Response("password_deleted", s)
            ELSE /\ passwords' = passwords
                 /\ resp' = Response("passwords", s)
         /\ UNCHANGED <<cards, deliveries, logged_in, clock, req>>

(* ------------------------------- cards --------------------------------- *)
\* Of the descriptive columns of a card only numero_tarjeta is kept: it is the
\* one deliver_card copies into a delivery.  The status column (Activa /
\* Inactiva) is read by no request that writes, and is left out.
CATEGORY_ORDER == <<"MODULO", "MAESTRA", "MANTENCION", "PROVISORIA">>

CATEGORY_DEFINITIONS == {CATEGORY_ORDER[i] : i \in 1 .. Len(CATEGORY_ORDER)}

\* category codes that requests carry: two defined ones and an undefined one
CategoryCodes == {"MODULO", "MAESTRA", "VISITA"}

CardIds == 1 .. MaxCardId

\* values typed into the card number field of the form
NumeroInputs == {<<" ", "1001">>}

category_view_add(s, category_code, numero_tarjeta) ==
    IF ~login_required(s) THEN ToLogin(s)
    ELSE IF category_code \notin CATEGORY_DEFINITIONS
    THEN /\ resp' = Response("not_found", s)
         /\ UNCHANGED <<passwords, cards, deliveries, logged_in, clock, req>>
    ELSE /\ NextId(cards) <= MaxCardId
         /\ cards' = cards \cup {[id |-> NextId(cards),
                                  category |-> category_code,
                                  numero_tarjeta |-> strip(numero_tarjeta)]}
         /\ resp' = Response("card_added", s)
         /\ UNCHANGED <<passwords, deliveries, logged_in, clock, req>>

\* the rows of the sheet that carry a value, in order, added to the table
RECURSIVE ImportRows(_, _, _)
ImportRows(rows, category_code, table) ==
    IF rows = <<>> THEN table
    ELSE LET value == strip(Head(rows))
         IN  IF value # <<>>
             THEN ImportRows(Tail(rows), category_code,
                             table \cup {[id |-> NextId(table),
                                          category |-> category_code,
                                          numero_tarjeta |-> value]})
             ELSE ImportRows(Tail(rows), category_code, table)

Sheets ==
    {<<>>, <<<<>>>>, <<<<"1001", " ">>>>, <<<<>>, <<"1001">>>>,
     <<<<"1001">>, <<"1001">>>>}

import_cards(s, category_code, rows) ==
    IF ~login_required(s) THEN ToLogin(s)
    ELSE IF category_code \notin CATEGORY_DEFINITIONS
    THEN /\ resp' = Response("not_found", s)
         /\ UNCHANGED <<passwords, cards, deliveries, logged_in, clock, req>>
    ELSE LET table == ImportRows(rows, category_code, cards)
         IN  /\ Ids(table) \subseteq CardIds
             /\ cards' = table
             /\ resp' = Response(IF table # cards THEN "imported"
                                 ELSE "nothing_imported", s)
             /\ UNCHANGED <<passwords, deliveries, logged_in, clock, req>>

\* Card.deliveries: the rows the relationship loads for a card
CardDeliveries(card) == {d \in deliveries : d.card_id = card.id}

\* mutant: the card is deleted, its deliveries are left in the table
delete_card_NoCascade(s, category_code, card_id) ==
    IF ~login_required(s) THEN ToLogin(s)
    ELSE IF ~\E c \in cards : c.id = card_id /\ c.category = category_code
    THEN /\ resp' = Response("not_found", s)
         /\ UNCHANGED <<passwords, cards, deliveries, logged_in, clock, req>>
    ELSE LET card == Row(cards, card_id)
         IN  /\ cards' = cards \ {card}
             /\ resp' = Response("card_deleted", s)
             /\ UNCHANGED <<passwords, deliveries, logged_in, clock, req>>

delete_card(s, category_code, card_id) ==
    IF ~login_required(s) THEN ToLogin(s)
    ELSE IF ~\E c \in cards : c.id = card_id /\ c.category = category_code
    THEN /\ resp' = Response("not_found", s)
         /\ UNCHANGED <<passwords, cards, deliveries, logged_in, clock, req>>
    ELSE LET card == Row(cards, card_id)
         IN  /\ cards' = cards \ {card}
             /\ deliveries' = deliveries \ CardDeliveries(card)
             /\ resp' = Response("card_deleted", s)
             /\ UNCHANGED <<passwords, logged_in, clock, req>>

(* ------------------------------ datetimes ------------------------------ *)
\* the text "%Y-%m-%d %H:%M:%S" of the given second
Stamp(sec) == "2024-01-01 10:00:0" \o ToString(sec)

format_dt(dt) == IF dt = None THEN <<>> ELSE <<Stamp(dt \div Res)>>

parse_dt_str(s) ==
    IF s = <<>> THEN None
    ELSE IF \E sec \in Seconds : s = <<Stamp(sec)>>
    THEN (CHOOSE sec \in Seconds : s = <<Stamp(sec)>>) * Res
    ELSE None

\* datetime.utcnow() of the request that reads the clock: later at every read,
\* and never a whole second
utcnow == clock * Res + 1

(* ----------------------------- deliveries ------------------------------ *)
\* .order_by(Delivery.entrega_at.asc()).all(): every list of the rows in
\* ascending entrega_at; rows of equal entrega_at come in any order
order_by_entrega_at(rows) ==
    {q \in [1 .. Cardinality(rows) -> rows] :
        /\ \A i, j \in DOMAIN q : i # j => q[i] # q[j]
        /\ \A i, j \in DOMAIN q : i < j => q[i].entrega_at <= q[j].entrega_at}

\* mutant: the rows are filtered by the category of the card alone
FilterByCard_CategoryOnly(card) ==
    {d \in deliveries : d.category = card.category}

FilterByCard(card) ==
    {d \in deliveries : d.category = card.category /\ d.card_id = card.id}

\* mutant: the first row of the list decides, not the last
status_of_First(history) ==
    IF history = <<>>
    THEN [texto |-> <<"Disponible">>, tipo |-> "Disponible"]
    ELSE LET last == history[1]
         IN  IF last.devolucion_at # None
             THEN [texto |-> <<"Disponible (devuelto ">>
                               \o format_dt(last.devolucion_at) \o <<")">>,
                   tipo |-> "Devueltas"]
             ELSE [texto |-> <<"Entregada a ">> \o last.nombre \o <<" (">>
                               \o format_dt(last.entrega_at) \o <<")">>,
                   tipo |-> "Entregadas"]

\* mutant: the name of the holder is left out of the text
status_of_Unnamed(history) ==
    IF history = <<>>
    THEN [texto |-> <<"Disponible">>, tipo |-> "Disponible"]
    ELSE LET last == history[Len(history)]
         IN  IF last.devolucion_at # None
             THEN [texto |-> <<"Disponible (devuelto ">>
                               \o format_dt(last.devolucion_at) \o <<")">>,
                   tipo |-> "Devueltas"]
             ELSE [texto |-> <<"Entregada">> \o <<" (">>
                               \o format_dt(last.entrega_at) \o <<")">>,
                   tipo |-> "Entregadas"]

status_of(history) ==
    IF history = <<>>
    THEN [texto |-> <<"Disponible">>, tipo |-> "Disponible"]
    ELSE LET last == history[Len(history)]
         IN  IF last.devolucion_at # None
             THEN [texto |-> <<"Disponible (devuelto ">>
                               \o format_dt(last.devolucion_at) \o <<")">>,
                   tipo |-> "Devueltas"]
             ELSE LET named == IF last.nombre # <<>>
                               THEN <<"Entregada a ">> \o last.nombre
                               ELSE <<"Entregada">>
                      base == IF last.entrega_at # None
                              THEN named \o <<" (">>
                                     \o format_dt(last.entrega_at) \o <<")">>
                              ELSE named
                  IN  [texto |-> base, tipo |-> "Entregadas"]

\* every result compute_card_status can return for the card on the stored rows
compute_card_status(card) ==
    {status_of(history) : history \in order_by_entrega_at(FilterByCard(card))}

\* mutant: the filter keeps the returned rows instead of the open ones
get_last_open_delivery_Returned(card) ==
    LET open == {d \in FilterByCard(card) : d.devolucion_at # None}
    IN  {IF history = <<>> THEN {} ELSE {history[Len(history)]} :
            history \in order_by_entrega_at(open)}

\* every result get_last_open_delivery can return: {} is None, {d} is the row d
get_last_open_delivery(card) ==
    LET open == {d \in FilterByCard(card) : d.devolucion_at = None}
    IN  {IF history = <<>> THEN {} ELSE {history[Len(history)]} :
            history \in order_by_entrega_at(open)}

NombreInputs == {<<>>, <<" ", "A. Lopez">>}
EntregaInputs == {<<"ayer">>} \cup {<<Stamp(sec)>> : sec \in Seconds}
DevolucionInputs == {<<>>} \cup {<<" ", Stamp(sec)>> : sec \in Seconds}

\* the forms posted to deliver_card: complete ones, one without RUT and one
\* without name
Forms ==
    [rut : {<<"11.111.111-1">>}, nombre : NombreInputs \ {<<>>},
     cargo : {<<"Guardia", " ">>}, empresa : {<<>>},
     entrega_at : EntregaInputs, devolucion_at : DevolucionInputs]
    \cup
    [rut : {<<" ">>}, nombre : NombreInputs \ {<<>>},
     cargo : {<<"Guardia", " ">>}, empresa : {<<>>},
     entrega_at : {<<Stamp(0)>>}, devolucion_at : {<<>>}]
    \cup
    [rut : {<<"11.111.111-1">>}, nombre : {<<>>},
     cargo : {<<"Guardia", " ">>}, empresa : {<<>>},
     entrega_at : {<<Stamp(0)>>}, devolucion_at : {<<" ", Stamp(0)>>}]

\* the values deliver_card derives from the form and the clock
Values(form) ==
    [rut |-> strip(form.rut),
     nombre |-> strip(form.nombre),
     cargo |-> strip(form.cargo),
     empresa |-> strip(form.empresa),
     entrega_at |-> IF parse_dt_str(strip(form.entrega_at)) # None
                    THEN parse_dt_str(strip(form.entrega_at))
                    ELSE utcnow,
     devolucion_at |-> parse_dt_str(strip(form.devolucion_at))]

Columns == {"rut", "nombre", "cargo", "empresa", "entrega_at", "devolucion_at"}

\* the UPDATE of the unit of work: the columns whose new value differs from
\* the value the row had when the request loaded it
Assigned(row, loaded, v) ==
    [col \in DOMAIN row |->
        IF col \in Columns /\ v[col] # loaded[col] THEN v[col] ELSE row[col]]

\* mutant: every commit inserts a row, the open row is left as it is
Commit_AppendOnly(table, card, last_open, v) ==
    table \cup {[id |-> NextId(table),
                 category |-> card.category,
                 card_id |-> card.id,
                 card_number |-> card.numero_tarjeta,
                 rut |-> v.rut,
                 nombre |-> v.nombre,
                 cargo |-> v.cargo,
                 empresa |-> v.empresa,
                 entrega_at |-> v.entrega_at,
                 devolucion_at |-> v.devolucion_at]}

\* mutant: the commit looks the card's open row up again and writes to it
Commit_Rechecked(table, card, last_open, v) ==
    LET open == {d \in table : /\ d.card_id = card.id
                                /\ d.category = card.category
                                /\ d.devolucion_at = None}
    IN  IF open # {}
        THEN LET row == CHOOSE d \in open : \A e \in open : e.id <= d.id
             IN  (table \ {row}) \cup {Assigned(row, row, v)}
        ELSE Commit_AppendOnly(table, card, last_open, v)

\* db.session.commit() of deliver_card: the UPDATE of the open row the request
\* loaded, or the INSERT of a new row
Commit(table, card, last_open, v) ==
    IF last_open # {}
    THEN LET loaded == CHOOSE d \in last_open : TRUE
             row == Row(table, loaded.id)
         IN  (table \ {row}) \cup {Assigned(row, loaded, v)}
    ELSE table \cup {[id |-> NextId(table),
                      category |-> card.category,
                      card_id |-> card.id,
                      card_number |-> card.numero_tarjeta,
                      rut |-> v.rut,
                      nombre |-> v.nombre,
                      cargo |-> v.cargo,
                      empresa |-> v.empresa,
                      entrega_at |-> v.entrega_at,
                      devolucion_at |-> v.devolucion_at]}

\* mutant: only the RUT is required
Valid_RutOnly(v) == v.rut # <<>>

Valid(v) == v.rut # <<>> /\ v.nombre # <<>>

\* POST of deliver_card, run from its first line to its redirect.  Both
\* branches flash the same message; the response kind tells them apart.
deliver_card(s, category_code, card_id, form) ==
    IF ~login_required(s) THEN ToLogin(s)
    ELSE IF \/ category_code \notin CATEGORY_DEFINITIONS
            \/ ~\E c \in cards : c.id = card_id /\ c.category = category_code
    THEN /\ resp' = Response("not_found", s)
         /\ UNCHANGED <<passwords, cards, deliveries, logged_in, clock, req>>
    ELSE LET card == Row(cards, card_id)
             v == Values(form)
         IN  /\ clock < MaxPosts
             /\ clock' = clock + 1
             /\ \E last_open \in get_last_open_delivery(card) :
                    IF ~Valid(v)
                    THEN /\ deliveries' = deliveries
                         /\ resp' = Response("required", s)
                    ELSE /\ Ids(Commit(deliveries, card, last_open, v))
                                \subseteq 1 .. MaxDeliveryId
                         /\ deliveries' = Commit(deliveries, card, last_open, v)
                         /\ resp' = Response(IF last_open # {} THEN "updated"
                                             ELSE "created", s)
             /\ UNCHANGED <<passwords, cards, logged_in, req>>

(* ----------------- deliver_card, two requests at once ------------------ *)
\* deliver_card from its first line to the end of its form handling: the
\* gate, the card, the open row the request loads, the values it will write
deliver_card_load(r, s, category_code, card_id, form) ==
    /\ req[r].pc # "loaded"
    /\ IF ~login_required(s)
       THEN /\ resp' = Response("to_login", s)
            /\ UNCHANGED <<clock, req>>
       ELSE IF \/ category_code \notin CATEGORY_DEFINITIONS
               \/ ~\E c \in cards : c.id = card_id /\ c.category = category_code
       THEN /\ resp' = Response("not_found", s)
            /\ UNCHANGED <<clock, req>>
       ELSE LET card == Row(cards, card_id)
                v == Values(form)
            IN  /\ clock < MaxRacePosts
                /\ clock' = clock + 1
                /\ \E last_open \in get_last_open_delivery(card) :
                       IF ~Valid(v)
                       THEN /\ resp' = Response("required", s)
                            /\ req' = req
                       ELSE /\ resp' = resp
                            /\ req' = [req EXCEPT ![r] =
                                          [pc |-> "loaded", session |-> s,
                                           card |-> card,
                                           last_open |-> last_open, v |-> v]]
    /\ UNCHANGED <<passwords, cards, deliveries, logged_in>>

\* the rest of deliver_card: the assignments or the new row, and the commit
deliver_card_commit(r) ==
    /\ req[r].pc = "loaded"
    /\ Ids(Commit(deliveries, req[r].card, req[r].last_open, req[r].v))
            \subseteq 1 .. MaxDeliveryId
    /\ deliveries' = Commit(deliveries, req[r].card, req[r].last_open, req[r].v)
    /\ resp' = Response(IF req[r].last_open # {} THEN "updated" ELSE "created",
                        req[r].session)
    /\ req' = [req EXCEPT ![r].pc = "done"]
    /\ UNCHANGED <<passwords, cards, logged_in, clock>>

(* ------------------------------- views --------------------------------- *)
\* GET of panel: per category, the cards and those whose status is Entregadas
panel(s) ==
    IF ~login_required(s) THEN ToLogin(s)
    ELSE LET results == UNION {compute_card_status(c) : c \in cards}
         IN  /\ \E estado \in [cards -> results] :
                    /\ \A c \in cards : estado[c] \in compute_card_status(c)
                    /\ resp' =
                         [kind |-> "panel", session |-> s,
                          rows |-> {[category |-> CATEGORY_ORDER[i],
                                     total |-> Cardinality(
                                        {c \in cards :
                                            c.category = CATEGORY_ORDER[i]}),
                                     pendientes |-> Cardinality(
                                        {c \in cards :
                                            /\ c.category = CATEGORY_ORDER[i]
                                            /\ estado[c].tipo = "Entregadas"})] :
                                    i \in 1 .. Len(CATEGORY_ORDER)}]
             /\ UNCHANGED <<passwords, cards, deliveries, logged_in, clock, req>>

StatusFilters == {"Todas", "Entregadas", "Devueltas"}

\* GET of category_view: the rows of the page
category_view(s, category_code, status_filter) ==
    IF ~login_required(s) THEN ToLogin(s)
    ELSE IF category_code \notin CATEGORY_DEFINITIONS
    THEN /\ resp' = Response("not_found", s)
         /\ UNCHANGED <<passwords, cards, deliveries, logged_in, clock, req>>
    ELSE LET listed == {c \in cards : c.category = category_code}
             results == UNION {compute_card_status(c) : c \in listed}
         IN  /\ \E estado \in [listed -> results] :
                    /\ \A c \in listed : estado[c] \in compute_card_status(c)
                    /\ resp' =
                         [kind |-> "category", session |-> s,
                          rows |-> {[card |-> c.id,
                                     estado_texto |-> estado[c].texto,
                                     tipo |-> estado[c].tipo] :
                                    c \in {k \in listed :
                                             \/ status_filter = "Todas"
                                             \/ estado[k].tipo = status_filter}}]
             /\ UNCHANGED <<passwords, cards, deliveries, logged_in, clock, req>>

(* ---------------------------- specification ---------------------------- *)
Idle == [pc |-> "idle"]

\* create_app on an empty database
Init ==
    /\ passwords = ensure_default_passwords({})
    /\ cards = {}
    /\ deliveries = {}
    /\ logged_in = {}
    /\ clock = 0
    /\ resp = Response("started", "none")
    /\ req = [r \in Requests |-> Idle]

\* requests of the desk: sessions, the card registry and deliveries
Next ==
    \/ \E s \in Sessions, password \in LoginInputs : login(s, password)
    \/ \E s \in Sessions : logout(s)
    \/ \E s \in Sessions, k \in CategoryCodes, n \in NumeroInputs :
            category_view_add(s, k, n)
    \/ \E s \in Sessions, k \in CategoryCodes, rows \in Sheets :
            import_cards(s, k, rows)
    \/ \E s \in Sessions, k \in CategoryCodes, id \in CardIds :
            delete_card(s, k, id)
    \/ \E s \in Sessions, k \in CategoryCodes, id \in CardIds, form \in Forms :
            deliver_card(s, k, id, form)
    \/ \E s \in Sessions : panel(s)

Spec == Init /\ [][Next]_vars

\* the forms of the two deliver_card specifications below: delivered now and
\* either still out or returned, and one without a name
RaceForms ==
    {f \in Forms : \/ f.entrega_at = <<"ayer">> /\ f.devolucion_at # <<" ", Stamp(0)>>
                   \/ f.nombre = <<>>}

\* every request of the application, on a registry of one card and one event
OneCard ==
    Cardinality(cards) <= 1 /\ Cardinality(deliveries) <= 1 /\ clock <= 1

NextApp ==
    \/ Restart
    \/ \E s \in Sessions, password \in LoginInputs : login(s, password)
    \/ \E s \in Sessions : logout(s)
    \/ \E s \in Sessions, p \in NewPasswordInputs : manage_passwords_add(s, p)
    \/ \E s \in Sessions, id \in 1 .. MaxPasswordId :
            manage_passwords_delete(s, id)
    \/ \E s \in Sessions, n \in NumeroInputs :
            category_view_add(s, "MODULO", n) /\ OneCard'
    \/ \E s \in Sessions :
            import_cards(s, "MODULO", <<<<>>, <<"1001">>>>) /\ OneCard'
    \/ \E s \in Sessions, id \in CardIds : delete_card(s, "MODULO", id)
    \/ \E s \in Sessions, id \in CardIds, form \in RaceForms :
            deliver_card(s, "MODULO", id, form) /\ OneCard'
    \/ \E s \in Sessions : panel(s)

SpecApp == Init /\ [][NextApp]_vars

\* two deliver_card requests in flight at once, on a registry of one card
NextRace ==
    \/ \E s \in Sessions : login(s, DEFAULT_PASSWORDS[2])
    \/ \E s \in Sessions, n \in NumeroInputs :
            Cardinality(cards) = 0 /\ category_view_add(s, "MODULO", n)
    \/ \E r \in Requests, s \in Sessions, k \in CategoryCodes, id \in CardIds,
          form \in RaceForms : deliver_card_load(r, s, k, id, form)
    \/ \E r \in Requests : deliver_card_commit(r)

SpecRace == Init /\ [][NextRace]_vars

\* the status of a card on a deliveries table that already holds rows for
\* it: timestamps of whole seconds as the form gives them, entrega_at never
\* null, nombre blank or not (the column is nullable and compute_card_status
\* tests it)
StoredRows ==
    [id : {0}, category : {"MODULO"}, card_id : {1}, card_number : {<<"1001">>},
     rut : {<<"11.111.111-1">>}, nombre : {<<>>, <<"A. Lopez">>},
     cargo : {<<>>}, empresa : {<<>>},
     entrega_at : {sec * Res : sec \in Seconds},
     devolucion_at : {None} \cup {sec * Res : sec \in Seconds}]

InitResolve ==
    /\ passwords = ensure_default_passwords({})
    /\ cards = {[id |-> 1, category |-> "MODULO", numero_tarjeta |-> <<"1001">>]}
    /\ \E q \in UNION {[1 .. n -> StoredRows] : n \in 0 .. MaxDeliveryId} :
          deliveries = {[q[i] EXCEPT !.id = i] : i \in DOMAIN q}
    /\ logged_in = {}
    /\ clock = 0
    /\ resp = Response("started", "none")
    /\ req = [r \in Requests |-> Idle]

NextResolve ==
    \/ \E s \in Sessions : login(s, DEFAULT_PASSWORDS[3])
    \/ \E s \in Sessions, k \in CategoryCodes, f \in StatusFilters :
            category_view(s, k, f)

SpecResolve == InitResolve /\ [][NextResolve]_vars

(* ============================== claims ================================= *)
OpenEvents(card_id) ==
    {d \in deliveries : d.card_id = card_id /\ d.devolucion_at = None}

EventsOf(table, card_id) == {d \in table : d.card_id = card_id}

Written(row, v) ==
    /\ row.rut = v.rut /\ row.nombre = v.nombre /\ row.cargo = v.cargo
    /\ row.empresa = v.empresa /\ row.entrega_at = v.entrega_at
    /\ row.devolucion_at = v.devolucion_at

\* C1: a successful record_delivery on a card with an open event rewrites that
\* event (same id, same number of events of the card, every other event as it
\* was); on a card without an open event it adds exactly one event.
C1_UpdateInPlaceOrAppend ==
    [][resp'.kind \in {"updated", "created"} =>
       \A k \in CategoryCodes, id \in CardIds, form \in Forms :
          (Valid(Values(form)) /\ deliver_card(resp'.session, k, id, form))
          => LET before == EventsOf(deliveries, id)
                 after == EventsOf(deliveries', id)
                 v == Values(form)
             IN  IF OpenEvents(id) # {}
                 THEN /\ Ids(after) = Ids(before)
                      /\ Cardinality(after) = Cardinality(before)
                      /\ \E d \in OpenEvents(id) :
                            /\ Written(Row(deliveries', d.id), v)
                            /\ before \ {d} \subseteq after
                 ELSE /\ Cardinality(after) = Cardinality(before) + 1
                      /\ before \subseteq after
                      /\ \E d \in after \ before : Written(d, v)
      ]_vars

\* C1 witness: the open event of a card has just been rewritten as returned,
\* and it is still the card's only event.
C1_Witness ==
    /\ resp.kind = "updated"
    /\ \E c \in cards :
          /\ Cardinality(EventsOf(deliveries, c.id)) = 1
          /\ OpenEvents(c.id) = {}

\* C2: with requests run one at a time, no card ever has two events with
\* devolucion_at null, so get_last_open_delivery has one possible result.
C2_AtMostOneOpen ==
    /\ \A id \in CardIds : Cardinality(OpenEvents(id)) <= 1
    /\ \A c \in cards : Cardinality(get_last_open_delivery(c)) = 1

\* C2 witness: a card with two events, one returned and one open.
C2_Witness ==
    \E c \in cards :
        /\ Cardinality(EventsOf(deliveries, c.id)) = 2
        /\ Cardinality(OpenEvents(c.id)) = 1

\* C3: a deliver_card request writes what its own lookup decided, whatever
\* another request committed in between: after a lookup that found no open
\* event it adds an event (an open one when no return was typed) even if the
\* card has an open event by then, and after a lookup that found one it writes
\* every column it changed over the stored row.
C3_CommitsUncoordinated ==
    [][\A r \in Requests :
          (req[r].pc = "loaded" /\ req'[r].pc = "done")
          => LET q == req[r]
                 id == q.card.id
             IN  IF q.last_open = {}
                 THEN /\ Cardinality(EventsOf(deliveries', id))
                            = Cardinality(EventsOf(deliveries, id)) + 1
                      /\ q.v.devolucion_at = None =>
                            \E d \in deliveries' \ deliveries :
                                d.card_id = id /\ d.devolucion_at = None
                 ELSE \E d \in q.last_open :
                          \A col \in Columns :
                              q.v[col] # d[col] =>
                                  Row(deliveries', d.id)[col] = q.v[col]
      ]_vars

\* C3 witness: the card has two open events, and both requests loaded the same
\* version of one of them and wrote different entrega_at values to it, of which
\* the row keeps one.
C3_Witness ==
    /\ req["r1"].pc = "done" /\ req["r2"].pc = "done"
    /\ req["r1"].last_open # {}
    /\ req["r1"].last_open = req["r2"].last_open
    /\ \E d \in req["r1"].last_open :
          /\ req["r1"].v.entrega_at # d.entrega_at
          /\ req["r2"].v.entrega_at # d.entrega_at
          /\ req["r1"].v.entrega_at # req["r2"].v.entrega_at
          /\ Row(deliveries, d.id).entrega_at
                \in {req["r1"].v.entrega_at, req["r2"].v.entrega_at}
          /\ Cardinality(OpenEvents(d.card_id)) = 2

LastIsReturned(h) == h # <<>> /\ h[Len(h)].devolucion_at # None

\* C4: when a list of a card's events in ascending entrega_at ends in a returned
\* event, the status is Devueltas and the text is "Disponible (devuelto <t>)"
\* where <t> reads back as exactly that event's devolucion_at.
C4_ReturnedLast ==
    \A c \in cards : \A h \in order_by_entrega_at(FilterByCard(c)) :
        LastIsReturned(h) =>
            /\ status_of(h).tipo = "Devueltas"
            /\ Len(status_of(h).texto) = 3
            /\ status_of(h).texto[1] = "Disponible (devuelto "
            /\ parse_dt_str(<<status_of(h).texto[2]>>) = h[Len(h)].devolucion_at
            /\ status_of(h).texto[3] = ")"

\* C4 witness: the panel has been computed for a card whose latest event is
\* returned while an earlier event of it is still open.
C4_Witness ==
    /\ resp.kind = "panel"
    /\ \E c \in cards : \E h \in order_by_entrega_at(FilterByCard(c)) :
          /\ Len(h) = 2
          /\ h[1].devolucion_at = None
          /\ h[1].entrega_at < h[2].entrega_at
          /\ LastIsReturned(h)

LastIsOpen(h) == h # <<>> /\ h[Len(h)].devolucion_at = None

Latest(rows) == {d \in rows : \A e \in rows : e.entrega_at <= d.entrega_at}

\* C6: among a card's events of equal entrega_at the one with the greatest id
\* is the last one, for all events and for the open ones, so that the status
\* and the open event of a card have one possible value.
C6_TieBrokenById ==
    \A c \in cards :
        /\ \A h \in order_by_entrega_at(FilterByCard(c)) :
              h # <<>> => h[Len(h)].id = Max(Ids(Latest(FilterByCard(c))))
        /\ Cardinality(compute_card_status(c)) = 1
        /\ Cardinality(get_last_open_delivery(c)) = 1

\* C7: a deliver_card POST of a logged-in session for an existing card whose
\* RUT or name is blank after trimming answers that both are required and
\* leaves passwords, cards and deliveries as they were.
C7_RejectedChangesNothing ==
    [][clock' = clock + 1 =>
       \A k \in CategoryCodes, id \in CardIds, form \in Forms :
          ( /\ resp'.session \in logged_in
            /\ \E c \in cards : c.id = id /\ c.category = k
            /\ (strip(form.rut) = <<>> \/ strip(form.nombre) = <<>>)
            /\ deliver_card(resp'.session, k, id, form) )
          => /\ resp'.kind = "required"
             /\ UNCHANGED <<passwords, cards, deliveries>>
      ]_vars

\* C7 witness: a request was just rejected while the only card has an open event.
C7_Witness ==
    /\ resp.kind = "required"
    /\ \E c \in cards : cards = {c} /\ OpenEvents(c.id) # {}

stores == <<passwords, cards, deliveries>>

\* C8: a request changes passwords, cards or deliveries only when its session
\* is logged in; a request of a session that is not logged in, other than a
\* login or logout, is answered with the redirect to login and changes none of
\* them; and a session becomes logged in only by a login with a password that
\* verify_password accepts.
C8_GatedChanges ==
    [][ /\ (stores' # stores /\ resp'.kind # "started")
            => resp'.session \in logged_in
        /\ ( /\ resp'.session \in Sessions \ logged_in
             /\ resp'.kind \notin {"login_ok", "login_bad", "logged_out"} )
            => (resp'.kind = "to_login" /\ stores' = stores)
        /\ \A s \in logged_in' \ logged_in :
              /\ resp' = Response("login_ok", s)
              /\ \E p \in LoginInputs : verify_password(p) /\ login(s, p)
      ]_vars

\* C8 witness: a session that is not logged in has just been sent to the login
\* page while another session is logged in and has registered a card.
C8_Witness ==
    /\ resp.kind = "to_login"
    /\ resp.session \notin logged_in
    /\ logged_in # {}
    /\ cards # {}

DefaultHashes == {_sha256(DEFAULT_PASSWORDS[i]) : i \in 1 .. Len(DEFAULT_PASSWORDS)}

\* C9 as stated: run on a table that is not empty, ensure_default_passwords
\* leaves the set of stored hashes as it was.
C9_Original ==
    [][(resp'.kind = "started" /\ passwords # {})
          => Hashes(passwords') = Hashes(passwords)]_vars

\* C9, amended: ensure_default_passwords adds the default hashes that are
\* missing from the table and nothing else: it keeps every row, never stores a
\* hash twice, and leaves a table that holds every default hash as it was.
C9_SeedsMissingDefaults ==
    [][resp'.kind = "started" =>
          /\ passwords \subseteq passwords'
          /\ Hashes(passwords') = Hashes(passwords) \cup DefaultHashes
          /\ Cardinality(passwords') = Cardinality(Hashes(passwords'))
          /\ DefaultHashes \subseteq Hashes(passwords) => passwords' = passwords
      ]_vars

\* C9 witness: after a start, the second default is stored under a new id
\* (it had been deleted) next to an added password.
C9_Witness ==
    /\ resp.kind = "started"
    /\ \E p \in passwords : p.hash = _sha256(DEFAULT_PASSWORDS[2]) /\ p.id # 2
    /\ _sha256(<<"Turno_2026">>) \in Hashes(passwords)

Plaintexts ==
    LoginInputs \cup {DEFAULT_PASSWORDS[i] : i \in 1 .. Len(DEFAULT_PASSWORDS)}

\* C10: a login succeeds exactly when the digest of the typed password is in
\* the table; with only the defaults stored verify_password accepts each
\* default and nothing else; and a password whose row is deleted is not
\* accepted any more.
C10_VerifyIffStored ==
    [][ /\ resp'.kind \in {"login_ok", "login_bad"} =>
              \A p \in LoginInputs :
                  login(resp'.session, p) =>
                      /\ resp'.session \in logged_in' <=>
                            \/ resp'.session \in logged_in
                            \/ _sha256(p) \in Hashes(passwords)
                      /\ resp'.kind = "login_ok"
                            <=> _sha256(p) \in Hashes(passwords)
        /\ Hashes(passwords) = DefaultHashes =>
              \A p \in Plaintexts :
                  verify_password(p) <=> _sha256(p) \in DefaultHashes
        /\ \A p \in Plaintexts :
              (_sha256(p) \in Hashes(passwords) \ Hashes(passwords'))
                  => ~(verify_password(p))'
      ]_vars

\* C10 witness: every default has been deleted, the added password is the only
\* one stored, and a login has just succeeded.
C10_Witness ==
    /\ Hashes(passwords) = {_sha256(<<"Turno_2026">>)}
    /\ resp.kind = "login_ok"

\* C11: delete_card of a logged-in session for a card that matches the id and
\* the category removes that card and exactly the deliveries whose card_id is
\* that card, and afterwards every delivery in the table refers to a card that
\* is there; when no card matches both the id and the category the answer is
\* not-found and no card and no delivery is removed.
C11_DeleteCascades ==
    [][/\ resp'.kind = "card_deleted" =>
            \E card \in cards :
                /\ cards' = cards \ {card}
                /\ deliveries' = deliveries \ EventsOf(deliveries, card.id)
                /\ EventsOf(deliveries', card.id) = {}
                /\ \A d \in deliveries' : \E c \in cards' : c.id = d.card_id
       /\ \A k \in CategoryCodes, id \in CardIds :
            (/\ resp'.session \in logged_in
             /\ ~\E c \in cards : c.id = id /\ c.category = k
             /\ delete_card(resp'.session, k, id))
            => /\ resp'.kind = "not_found"
               /\ cards' = cards
               /\ deliveries' = deliveries]_vars

\* C11 witness: a card has just been deleted; the delivery with id 1 went with
\* its card, and the delivery with id 2, of the card that is left, is still
\* in the table.
C11_Witness ==
    /\ resp.kind = "card_deleted"
    /\ clock = 2
    /\ Cardinality(cards) = 1
    /\ Cardinality(deliveries) = 1
    /\ \E c \in cards, d \in deliveries : d.id = 2 /\ d.card_id = c.id

Disponible == [texto |-> <<"Disponible">>, tipo |-> "Disponible"]

\* C12: after every request, a card with no delivery of its own has the status
\* "Disponible" with the text "Disponible", and no other; in particular every
\* card a request has just added or imported has it, whatever was delivered on
\* other cards and whichever cards were deleted before.
C12_NoEventsAvailable ==
    [][/\ \A c \in cards' :
            EventsOf(deliveries', c.id) = {}
            => (compute_card_status(c))' = {Disponible}
       /\ resp'.kind \in {"card_added", "imported"} =>
            \A c \in cards' \ cards : (compute_card_status(c))' = {Disponible}]_vars

\* C12 witness: a card has just been added under the id 2, which a deleted
\* card had before it; the delivery with id 1 went with a deleted card, and
\* card 1, of the same category, holds the delivery with id 2.
C12_Witness ==
    /\ resp.kind = "card_added"
    /\ clock = 2
    /\ {c.id : c \in cards} = {1, 2}
    /\ {c.category : c \in cards} = {"MODULO"}
    /\ {d.id : d \in deliveries} = {2}
    /\ \A d \in deliveries : d.card_id = 1
    /\ \A c \in cards : c.id = 2 => Disponible \in compute_card_status(c)

\* C13: for every card, compute_card_status answers "Entregadas" exactly when
\* get_last_open_delivery returns a delivery, and then the text shows the
\* nombre and the entrega_at of that delivery.
C13_ResolveAgreesWithFindOpen ==
    \A c \in cards :
        \A estado \in compute_card_status(c), found \in get_last_open_delivery(c) :
            /\ estado.tipo = "Entregadas" <=> found # {}
            /\ \A d \in found :
                 estado.texto = <<"Entregada a ">> \o d.nombre \o <<" (">>
                                  \o format_dt(d.entrega_at) \o <<")">>

====
